---- MODULE Spec2Model ----
(***************************************************************************)
(* Static NE10 FFT parameter tables of the CELT mode 48000/960             *)
(* (celt_static_modes_float_arm_ne10.h) and the reads a consumer makes     *)
(* through the four descriptors cfg_arch_480/240/120/60.                   *)
(*                                                                         *)
(* ne10_fft_cpx_float32_t literals are kept as signed fixed-point integers *)
(* in units of 10^-8 (r, i), rounded to the nearest unit; a literal        *)
(* -0.0000000f compares equal to 0.0000000f and is stored as 0.            *)
(***************************************************************************)
EXTENDS Integers, Sequences, FiniteSets, TLC

Limb == 10^4
Scale == Limb * Limb

NULL == "NULL"

(* ---- ne10_int32_t ne10_factors_N[64] ---- *)
ne10_factors_480 == <<
  4, 40, 4, 30, 2, 15, 5, 3, 3, 1, 1, 0, 0, 0, 0,
  0, 0, 0, 0, 0, 0, 0, 0, 0, 0, 0, 0, 0, 0, 0,
  0, 0, 0, 0, 0, 0, 0, 0, 0, 0, 0, 0, 0, 0, 0,
  0, 0, 0, 0, 0, 0, 0, 0, 0, 0, 0, 0, 0, 0, 0,
  0, 0, 0, 0
>>

ne10_factors_240 == <<
  3, 20, 4, 15, 5, 3, 3, 1, 1, 0, 0, 0, 0, 0, 0,
  0, 0, 0, 0, 0, 0, 0, 0, 0, 0, 0, 0, 0, 0, 0,
  0, 0, 0, 0, 0, 0, 0, 0, 0, 0, 0, 0, 0, 0, 0,
  0, 0, 0, 0, 0, 0, 0, 0, 0, 0, 0, 0, 0, 0, 0,
  0, 0, 0, 0
>>

(* ne10_factors_120 with each remaining size recorded before the division *)
(* by its radix.                                                           *)
ne10_factors_120_stale_size == <<
  3, 10, 2, 30, 5, 15, 3, 3, 1, 0, 0, 0, 0, 0, 0,
  0, 0, 0, 0, 0, 0, 0, 0, 0, 0, 0, 0, 0, 0, 0,
  0, 0, 0, 0, 0, 0, 0, 0, 0, 0, 0, 0, 0, 0, 0,
  0, 0, 0, 0, 0, 0, 0, 0, 0, 0, 0, 0, 0, 0, 0,
  0, 0, 0, 0
>>

ne10_factors_120 == <<
  3, 10, 2, 15, 5, 3, 3, 1, 1, 0, 0, 0, 0, 0, 0,
  0, 0, 0, 0, 0, 0, 0, 0, 0, 0, 0, 0, 0, 0, 0,
  0, 0, 0, 0, 0, 0, 0, 0, 0, 0, 0, 0, 0, 0, 0,
  0, 0, 0, 0, 0, 0, 0, 0, 0, 0, 0, 0, 0, 0, 0,
  0, 0, 0, 0
>>

(* ne10_factors_60 with the radix-3 stage recorded before the radix-5 one. *)
ne10_factors_60_three_first == <<
  2, 5, 3, 5, 5, 1, 1, 0, 0, 0, 0, 0, 0, 0, 0,
  0, 0, 0, 0, 0, 0, 0, 0, 0, 0, 0, 0, 0, 0, 0,
  0, 0, 0, 0, 0, 0, 0, 0, 0, 0, 0, 0, 0, 0, 0,
  0, 0, 0, 0, 0, 0, 0, 0, 0, 0, 0, 0, 0, 0, 0,
  0, 0, 0, 0
>>

ne10_factors_60 == <<
  2, 5, 5, 3, 3, 1, 1, 0, 0, 0, 0, 0, 0, 0, 0,
  0, 0, 0, 0, 0, 0, 0, 0, 0, 0, 0, 0, 0, 0, 0,
  0, 0, 0, 0, 0, 0, 0, 0, 0, 0, 0, 0, 0, 0, 0,
  0, 0, 0, 0, 0, 0, 0, 0, 0, 0, 0, 0, 0, 0, 0,
  0, 0, 0, 0
>>

(* ---- ne10_fft_cpx_float32_t ne10_twiddles_N[N] ---- *)
ne10_twiddles_480 == <<
  <<100000000, 0>>, <<100000000, 0>>, <<100000000, 0>>,
  <<100000000, 0>>, <<91354543, -40673664>>, <<66913056, -74314487>>,
  <<100000000, 0>>, <<66913056, -74314487>>, <<-10452851, -99452192>>,
  <<100000000, 0>>, <<30901697, -95105654>>, <<-80901700, -58778518>>,
  <<100000000, 0>>, <<-10452851, -99452192>>, <<-97814757, 20791179>>,
  <<100000000, 0>>, <<97814763, -20791170>>, <<91354543, -40673664>>,
  <<80901700, -58778524>>, <<66913056, -74314487>>, <<49999997, -86602545>>,
  <<30901697, -95105654>>, <<10452842, -99452192>>, <<-10452851, -99452192>>,
  <<-30901703, -95105648>>, <<-50000006, -86602533>>, <<-66913068, -74314475>>,
  <<-80901700, -58778518>>, <<-91354549, -40673658>>, <<-97814763, -20791161>>,
  <<100000000, 0>>, <<99862951, -5233596>>, <<99452192, -10452846>>,
  <<98768836, -15643448>>, <<97814763, -20791170>>, <<96592581, -25881904>>,
  <<95105648, -30901700>>, <<93358040, -35836795>>, <<91354543, -40673664>>,
  <<89100653, -45399052>>, <<86602545, -50000000>>, <<83867055, -54463905>>,
  <<80901700, -58778524>>, <<77714598, -62932038>>, <<74314475, -66913062>>,
  <<70710677, -70710683>>, <<66913056, -74314487>>, <<62932038, -77714598>>,
  <<58778524, -80901700>>, <<54463899, -83867055>>, <<49999997, -86602545>>,
  <<45399052, -89100653>>, <<40673661, -91354549>>, <<35836786, -93358046>>,
  <<30901697, -95105654>>, <<25881907, -96592581>>, <<20791166, -97814763>>,
  <<15643437, -98768836>>, <<10452842, -99452192>>, <<5233597, -99862951>>,
  <<100000000, 0>>, <<99452192, -10452846>>, <<97814763, -20791170>>,
  <<95105648, -30901700>>, <<91354543, -40673664>>, <<86602545, -50000000>>,
  <<80901700, -58778524>>, <<74314475, -66913062>>, <<66913056, -74314487>>,
  <<58778524, -80901700>>, <<49999997, -86602545>>, <<40673661, -91354549>>,
  <<30901697, -95105654>>, <<20791166, -97814763>>, <<10452842, -99452192>>,
  <<-4, -100000000>>, <<-10452851, -99452192>>, <<-20791174, -97814757>>,
  <<-30901703, -95105648>>, <<-40673670, -91354543>>, <<-50000006, -86602533>>,
  <<-58778518, -80901700>>, <<-66913068, -74314475>>, <<-74314493, -66913044>>,
  <<-80901700, -58778518>>, <<-86602539, -50000006>>, <<-91354549, -40673658>>,
  <<-95105654, -30901679>>, <<-97814763, -20791161>>, <<-99452192, -10452849>>,
  <<100000000, 0>>, <<98768836, -15643448>>, <<95105648, -30901700>>,
  <<89100653, -45399052>>, <<80901700, -58778524>>, <<70710677, -70710683>>,
  <<58778524, -80901700>>, <<45399052, -89100653>>, <<30901697, -95105654>>,
  <<15643437, -98768836>>, <<-4, -100000000>>, <<-15643445, -98768836>>,
  <<-30901703, -95105648>>, <<-45399061, -89100647>>, <<-58778518, -80901700>>,
  <<-70710677, -70710677>>, <<-80901700, -58778518>>, <<-89100659, -45399037>>,
  <<-95105654, -30901679>>, <<-98768836, -15643445>>, <<-100000000, 9>>,
  <<-98768830, 15643461>>, <<-95105654, 30901697>>, <<-89100653, 45399055>>,
  <<-80901694, 58778536>>, <<-70710665, 70710689>>, <<-58778507, 80901712>>,
  <<-45399022, 89100665>>, <<-30901709, 95105648>>, <<-15643452, 98768830>>,
  <<100000000, 0>>, <<99991435, -1308960>>, <<99965733, -2617695>>,
  <<99922901, -3925982>>, <<99862951, -5233596>>, <<99785894, -6540313>>,
  <<99691731, -7845910>>, <<99580491, -9150162>>, <<99452192, -10452846>>,
  <<99306846, -11753740>>, <<99144489, -13052620>>, <<98965138, -14349262>>,
  <<98768836, -15643448>>, <<98555607, -16934951>>, <<98325491, -18223552>>,
  <<98078525, -19509032>>, <<97814763, -20791170>>, <<97534233, -22069745>>,
  <<97236991, -23344538>>, <<96923089, -24615330>>, <<96592581, -25881904>>,
  <<96245521, -27144045>>, <<95881975, -28401536>>, <<95501995, -29654160>>,
  <<95105648, -30901700>>, <<94693011, -32143945>>, <<94264150, -33380687>>,
  <<93819129, -34611708>>, <<93358040, -35836795>>, <<92880952, -37055743>>,
  <<92387956, -38268346>>, <<91879117, -39474389>>, <<91354543, -40673664>>,
  <<90814316, -41865975>>, <<90258527, -43051112>>, <<89687270, -44228873>>,
  <<89100653, -45399052>>, <<88498765, -46561453>>, <<87881708, -47715878>>,
  <<87249601, -48862126>>, <<86602545, -50000000>>, <<85940641, -51129311>>,
  <<85264015, -52249855>>, <<84572786, -53361452>>, <<83867055, -54463905>>,
  <<83146960, -55557024>>, <<82412618, -56640625>>, <<81664151, -57714522>>,
  <<80901700, -58778524>>, <<80125380, -59832460>>, <<79335332, -60876143>>,
  <<78531694, -61909395>>, <<77714598, -62932038>>, <<76884180, -63943899>>,
  <<76040596, -64944810>>, <<75183982, -65934587>>, <<74314475, -66913062>>,
  <<73432249, -67880076>>, <<72537434, -68835455>>, <<71630192, -69779050>>,
  <<70710677, -70710683>>, <<69779044, -71630198>>, <<68835455, -72537440>>,
  <<67880070, -73432255>>, <<66913056, -74314487>>, <<65934581, -75183982>>,
  <<64944804, -76040596>>, <<63943899, -76884186>>, <<62932038, -77714598>>,
  <<61909395, -78531694>>, <<60876137, -79335338>>, <<59832460, -80125386>>,
  <<58778524, -80901700>>, <<57714516, -81664151>>, <<56640625, -82412618>>,
  <<55557019, -83146960>>, <<54463899, -83867055>>, <<53361452, -84572786>>,
  <<52249849, -85264015>>, <<51129311, -85940641>>, <<49999997, -86602545>>,
  <<48862118, -87249601>>, <<47715876, -87881708>>, <<46561447, -88498765>>,
  <<45399052, -89100653>>, <<44228867, -89687276>>, <<43051103, -90258533>>,
  <<41865975, -90814316>>, <<40673661, -91354549>>, <<39474380, -91879129>>,
  <<38268343, -92387956>>, <<37055740, -92880958>>, <<35836786, -93358046>>,
  <<34611705, -93819135>>, <<33380681, -94264150>>, <<32143947, -94693011>>,
  <<30901697, -95105654>>, <<29654151, -95501995>>, <<28401533, -95881975>>,
  <<27144039, -96245527>>, <<25881907, -96592581>>, <<24615327, -96923089>>,
  <<23344530, -97236991>>, <<22069745, -97534233>>, <<20791166, -97814763>>,
  <<19509023, -98078531>>, <<18223552, -98325491>>, <<16934945, -98555607>>,
  <<15643437, -98768836>>, <<14349259, -98965138>>, <<13052613, -99144489>>,
  <<11753740, -99306846>>, <<10452842, -99452192>>, <<9150153, -99580491>>,
  <<7845908, -99691731>>, <<6540307, -99785894>>, <<5233597, -99862951>>,
  <<3925979, -99922901>>, <<2617688, -99965733>>, <<1308960, -99991435>>,
  <<100000000, 0>>, <<99965733, -2617695>>, <<99862951, -5233596>>,
  <<99691731, -7845910>>, <<99452192, -10452846>>, <<99144489, -13052620>>,
  <<98768836, -15643448>>, <<98325491, -18223552>>, <<97814763, -20791170>>,
  <<97236991, -23344538>>, <<96592581, -25881904>>, <<95881975, -28401536>>,
  <<95105648, -30901700>>, <<94264150, -33380687>>, <<93358040, -35836795>>,
  <<92387956, -38268346>>, <<91354543, -40673664>>, <<90258527, -43051112>>,
  <<89100653, -45399052>>, <<87881708, -47715878>>, <<86602545, -50000000>>,
  <<85264015, -52249855>>, <<83867055, -54463905>>, <<82412618, -56640625>>,
  <<80901700, -58778524>>, <<79335332, -60876143>>, <<77714598, -62932038>>,
  <<76040596, -64944810>>, <<74314475, -66913062>>, <<72537434, -68835455>>,
  <<70710677, -70710683>>, <<68835455, -72537440>>, <<66913056, -74314487>>,
  <<64944804, -76040596>>, <<62932038, -77714598>>, <<60876137, -79335338>>,
  <<58778524, -80901700>>, <<56640625, -82412618>>, <<54463899, -83867055>>,
  <<52249849, -85264015>>, <<49999997, -86602545>>, <<47715876, -87881708>>,
  <<45399052, -89100653>>, <<43051103, -90258533>>, <<40673661, -91354549>>,
  <<38268343, -92387956>>, <<35836786, -93358046>>, <<33380681, -94264150>>,
  <<30901697, -95105654>>, <<28401533, -95881975>>, <<25881907, -96592581>>,
  <<23344530, -97236991>>, <<20791166, -97814763>>, <<18223552, -98325491>>,
  <<15643437, -98768836>>, <<13052613, -99144489>>, <<10452842, -99452192>>,
  <<7845908, -99691731>>, <<5233597, -99862951>>, <<2617688, -99965733>>,
  <<-4, -100000000>>, <<-2617696, -99965733>>, <<-5233606, -99862951>>,
  <<-7845917, -99691731>>, <<-10452851, -99452192>>, <<-13052621, -99144489>>,
  <<-15643445, -98768836>>, <<-18223560, -98325491>>, <<-20791174, -97814757>>,
  <<-23344538, -97236991>>, <<-25881916, -96592581>>, <<-28401542, -95881969>>,
  <<-30901703, -95105648>>, <<-33380687, -94264150>>, <<-35836795, -93358040>>,
  <<-38268352, -92387950>>, <<-40673670, -91354543>>, <<-43051112, -90258527>>,
  <<-45399061, -89100647>>, <<-47715873, -87881708>>, <<-50000006, -86602533>>,
  <<-52249867, -85264009>>, <<-54463905, -83867055>>, <<-56640631, -82412612>>,
  <<-58778518, -80901700>>, <<-60876143, -79335332>>, <<-62932050, -77714586>>,
  <<-64944804, -76040596>>, <<-66913068, -74314475>>, <<-68835467, -72537428>>,
  <<-70710677, -70710677>>, <<-72537446, -68835449>>, <<-74314493, -66913044>>,
  <<-76040596, -64944804>>, <<-77714604, -62932026>>, <<-79335332, -60876143>>,
  <<-80901700, -58778518>>, <<-82412624, -56640613>>, <<-83867055, -54463899>>,
  <<-85264021, -52249849>>, <<-86602539, -50000006>>, <<-87881714, -47715873>>,
  <<-89100659, -45399037>>, <<-90258527, -43051112>>, <<-91354549, -40673658>>,
  <<-92387956, -38268328>>, <<-93358040, -35836792>>, <<-94264150, -33380675>>,
  <<-95105654, -30901679>>, <<-95881975, -28401530>>, <<-96592587, -25881892>>,
  <<-97236991, -23344538>>, <<-97814763, -20791161>>, <<-98325491, -18223536>>,
  <<-98768836, -15643445>>, <<-99144489, -13052608>>, <<-99452192, -10452849>>,
  <<-99691737, -7845904>>, <<-99862957, -5233581>>, <<-99965733, -2617695>>,
  <<100000000, 0>>, <<99922901, -3925982>>, <<99691731, -7845910>>,
  <<99306846, -11753740>>, <<98768836, -15643448>>, <<98078525, -19509032>>,
  <<97236991, -23344538>>, <<96245521, -27144045>>, <<95105648, -30901700>>,
  <<93819129, -34611708>>, <<92387956, -38268346>>, <<90814316, -41865975>>,
  <<89100653, -45399052>>, <<87249601, -48862126>>, <<85264015, -52249855>>,
  <<83146960, -55557024>>, <<80901700, -58778524>>, <<78531694, -61909395>>,
  <<76040596, -64944810>>, <<73432249, -67880076>>, <<70710677, -70710683>>,
  <<67880070, -73432255>>, <<64944804, -76040596>>, <<61909395, -78531694>>,
  <<58778524, -80901700>>, <<55557019, -83146960>>, <<52249849, -85264015>>,
  <<48862118, -87249601>>, <<45399052, -89100653>>, <<41865975, -90814316>>,
  <<38268343, -92387956>>, <<34611705, -93819135>>, <<30901697, -95105654>>,
  <<27144039, -96245527>>, <<23344530, -97236991>>, <<19509023, -98078531>>,
  <<15643437, -98768836>>, <<11753740, -99306846>>, <<7845908, -99691731>>,
  <<3925979, -99922901>>, <<-4, -100000000>>, <<-3925988, -99922901>>,
  <<-7845917, -99691731>>, <<-11753749, -99306846>>, <<-15643445, -98768836>>,
  <<-19509032, -98078525>>, <<-23344538, -97236991>>, <<-27144048, -96245521>>,
  <<-30901703, -95105648>>, <<-34611711, -93819129>>, <<-38268352, -92387950>>,
  <<-41865984, -90814310>>, <<-45399061, -89100647>>, <<-48862135, -87249595>>,
  <<-52249867, -85264009>>, <<-55557036, -83146954>>, <<-58778518, -80901700>>,
  <<-61909389, -78531694>>, <<-64944804, -76040596>>, <<-67880076, -73432249>>,
  <<-70710677, -70710677>>, <<-73432249, -67880070>>, <<-76040596, -64944804>>,
  <<-78531694, -61909389>>, <<-80901700, -58778518>>, <<-83146966, -55557019>>,
  <<-85264021, -52249849>>, <<-87249607, -48862115>>, <<-89100659, -45399037>>,
  <<-90814322, -41865960>>, <<-92387956, -38268328>>, <<-93819135, -34611690>>,
  <<-95105654, -30901679>>, <<-96245521, -27144048>>, <<-97236991, -23344538>>,
  <<-98078531, -19509031>>, <<-98768836, -15643445>>, <<-99306846, -11753736>>,
  <<-99691737, -7845904>>, <<-99922901, -3925974>>, <<-100000000, 9>>,
  <<-99922901, 3925992>>, <<-99691731, 7845922>>, <<-99306846, 11753753>>,
  <<-98768830, 15643461>>, <<-98078525, 19509049>>, <<-97236985, 23344554>>,
  <<-96245515, 27144065>>, <<-95105654, 30901697>>, <<-93819135, 34611705>>,
  <<-92387956, 38268346>>, <<-90814316, 41865975>>, <<-89100653, 45399055>>,
  <<-87249601, 48862129>>, <<-85264015, 52249861>>, <<-83146960, 55557030>>,
  <<-80901694, 58778536>>, <<-78531688, 61909401>>, <<-76040590, 64944816>>,
  <<-73432243, 67880082>>, <<-70710665, 70710689>>, <<-67880058, 73432261>>,
  <<-64944792, 76040608>>, <<-61909378, 78531706>>, <<-58778507, 80901712>>,
  <<-55557001, 83146977>>, <<-52249837, 85264033>>, <<-48862100, 87249613>>,
  <<-45399022, 89100665>>, <<-41865945, 90814328>>, <<-38268313, 92387968>>,
  <<-34611672, 93819147>>, <<-30901709, 95105648>>, <<-27144054, 96245521>>,
  <<-23344545, 97236991>>, <<-19509038, 98078525>>, <<-15643452, 98768830>>,
  <<-11753743, 99306846>>, <<-7845911, 99691731>>, <<-3925982, 99922901>>
>>

ne10_twiddles_240 == <<
  <<100000000, 0>>, <<100000000, 0>>, <<100000000, 0>>,
  <<100000000, 0>>, <<91354543, -40673664>>, <<66913056, -74314487>>,
  <<100000000, 0>>, <<66913056, -74314487>>, <<-10452851, -99452192>>,
  <<100000000, 0>>, <<30901697, -95105654>>, <<-80901700, -58778518>>,
  <<100000000, 0>>, <<-10452851, -99452192>>, <<-97814757, 20791179>>,
  <<100000000, 0>>, <<99452192, -10452846>>, <<97814763, -20791170>>,
  <<95105648, -30901700>>, <<91354543, -40673664>>, <<86602545, -50000000>>,
  <<80901700, -58778524>>, <<74314475, -66913062>>, <<66913056, -74314487>>,
  <<58778524, -80901700>>, <<49999997, -86602545>>, <<40673661, -91354549>>,
  <<30901697, -95105654>>, <<20791166, -97814763>>, <<10452842, -99452192>>,
  <<100000000, 0>>, <<97814763, -20791170>>, <<91354543, -40673664>>,
  <<80901700, -58778524>>, <<66913056, -74314487>>, <<49999997, -86602545>>,
  <<30901697, -95105654>>, <<10452842, -99452192>>, <<-10452851, -99452192>>,
  <<-30901703, -95105648>>, <<-50000006, -86602533>>, <<-66913068, -74314475>>,
  <<-80901700, -58778518>>, <<-91354549, -40673658>>, <<-97814763, -20791161>>,
  <<100000000, 0>>, <<95105648, -30901700>>, <<80901700, -58778524>>,
  <<58778524, -80901700>>, <<30901697, -95105654>>, <<-4, -100000000>>,
  <<-30901703, -95105648>>, <<-58778518, -80901700>>, <<-80901700, -58778518>>,
  <<-95105654, -30901679>>, <<-100000000, 9>>, <<-95105654, 30901697>>,
  <<-80901694, 58778536>>, <<-58778507, 80901712>>, <<-30901709, 95105648>>,
  <<100000000, 0>>, <<99965733, -2617695>>, <<99862951, -5233596>>,
  <<99691731, -7845910>>, <<99452192, -10452846>>, <<99144489, -13052620>>,
  <<98768836, -15643448>>, <<98325491, -18223552>>, <<97814763, -20791170>>,
  <<97236991, -23344538>>, <<96592581, -25881904>>, <<95881975, -28401536>>,
  <<95105648, -30901700>>, <<94264150, -33380687>>, <<93358040, -35836795>>,
  <<92387956, -38268346>>, <<91354543, -40673664>>, <<90258527, -43051112>>,
  <<89100653, -45399052>>, <<87881708, -47715878>>, <<86602545, -50000000>>,
  <<85264015, -52249855>>, <<83867055, -54463905>>, <<82412618, -56640625>>,
  <<80901700, -58778524>>, <<79335332, -60876143>>, <<77714598, -62932038>>,
  <<76040596, -64944810>>, <<74314475, -66913062>>, <<72537434, -68835455>>,
  <<70710677, -70710683>>, <<68835455, -72537440>>, <<66913056, -74314487>>,
  <<64944804, -76040596>>, <<62932038, -77714598>>, <<60876137, -79335338>>,
  <<58778524, -80901700>>, <<56640625, -82412618>>, <<54463899, -83867055>>,
  <<52249849, -85264015>>, <<49999997, -86602545>>, <<47715876, -87881708>>,
  <<45399052, -89100653>>, <<43051103, -90258533>>, <<40673661, -91354549>>,
  <<38268343, -92387956>>, <<35836786, -93358046>>, <<33380681, -94264150>>,
  <<30901697, -95105654>>, <<28401533, -95881975>>, <<25881907, -96592581>>,
  <<23344530, -97236991>>, <<20791166, -97814763>>, <<18223552, -98325491>>,
  <<15643437, -98768836>>, <<13052613, -99144489>>, <<10452842, -99452192>>,
  <<7845908, -99691731>>, <<5233597, -99862951>>, <<2617688, -99965733>>,
  <<100000000, 0>>, <<99862951, -5233596>>, <<99452192, -10452846>>,
  <<98768836, -15643448>>, <<97814763, -20791170>>, <<96592581, -25881904>>,
  <<95105648, -30901700>>, <<93358040, -35836795>>, <<91354543, -40673664>>,
  <<89100653, -45399052>>, <<86602545, -50000000>>, <<83867055, -54463905>>,
  <<80901700, -58778524>>, <<77714598, -62932038>>, <<74314475, -66913062>>,
  <<70710677, -70710683>>, <<66913056, -74314487>>, <<62932038, -77714598>>,
  <<58778524, -80901700>>, <<54463899, -83867055>>, <<49999997, -86602545>>,
  <<45399052, -89100653>>, <<40673661, -91354549>>, <<35836786, -93358046>>,
  <<30901697, -95105654>>, <<25881907, -96592581>>, <<20791166, -97814763>>,
  <<15643437, -98768836>>, <<10452842, -99452192>>, <<5233597, -99862951>>,
  <<-4, -100000000>>, <<-5233606, -99862951>>, <<-10452851, -99452192>>,
  <<-15643445, -98768836>>, <<-20791174, -97814757>>, <<-25881916, -96592581>>,
  <<-30901703, -95105648>>, <<-35836795, -93358040>>, <<-40673670, -91354543>>,
  <<-45399061, -89100647>>, <<-50000006, -86602533>>, <<-54463905, -83867055>>,
  <<-58778518, -80901700>>, <<-62932050, -77714586>>, <<-66913068, -74314475>>,
  <<-70710677, -70710677>>, <<-74314493, -66913044>>, <<-77714604, -62932026>>,
  <<-80901700, -58778518>>, <<-83867055, -54463899>>, <<-86602539, -50000006>>,
  <<-89100659, -45399037>>, <<-91354549, -40673658>>, <<-93358040, -35836792>>,
  <<-95105654, -30901679>>, <<-96592587, -25881892>>, <<-97814763, -20791161>>,
  <<-98768836, -15643445>>, <<-99452192, -10452849>>, <<-99862957, -5233581>>,
  <<100000000, 0>>, <<99691731, -7845910>>, <<98768836, -15643448>>,
  <<97236991, -23344538>>, <<95105648, -30901700>>, <<92387956, -38268346>>,
  <<89100653, -45399052>>, <<85264015, -52249855>>, <<80901700, -58778524>>,
  <<76040596, -64944810>>, <<70710677, -70710683>>, <<64944804, -76040596>>,
  <<58778524, -80901700>>, <<52249849, -85264015>>, <<45399052, -89100653>>,
  <<38268343, -92387956>>, <<30901697, -95105654>>, <<23344530, -97236991>>,
  <<15643437, -98768836>>, <<7845908, -99691731>>, <<-4, -100000000>>,
  <<-7845917, -99691731>>, <<-15643445, -98768836>>, <<-23344538, -97236991>>,
  <<-30901703, -95105648>>, <<-38268352, -92387950>>, <<-45399061, -89100647>>,
  <<-52249867, -85264009>>, <<-58778518, -80901700>>, <<-64944804, -76040596>>,
  <<-70710677, -70710677>>, <<-76040596, -64944804>>, <<-80901700, -58778518>>,
  <<-85264021, -52249849>>, <<-89100659, -45399037>>, <<-92387956, -38268328>>,
  <<-95105654, -30901679>>, <<-97236991, -23344538>>, <<-98768836, -15643445>>,
  <<-99691737, -7845904>>, <<-100000000, 9>>, <<-99691731, 7845922>>,
  <<-98768830, 15643461>>, <<-97236985, 23344554>>, <<-95105654, 30901697>>,
  <<-92387956, 38268346>>, <<-89100653, 45399055>>, <<-85264015, 52249861>>,
  <<-80901694, 58778536>>, <<-76040590, 64944816>>, <<-70710665, 70710689>>,
  <<-64944792, 76040608>>, <<-58778507, 80901712>>, <<-52249837, 85264033>>,
  <<-45399022, 89100665>>, <<-38268313, 92387968>>, <<-30901709, 95105648>>,
  <<-23344545, 97236991>>, <<-15643452, 98768830>>, <<-7845911, 99691731>>
>>

ne10_twiddles_120 == <<
  <<100000000, 0>>, <<100000000, 0>>, <<100000000, 0>>,
  <<100000000, 0>>, <<91354543, -40673664>>, <<66913056, -74314487>>,
  <<100000000, 0>>, <<66913056, -74314487>>, <<-10452851, -99452192>>,
  <<100000000, 0>>, <<30901697, -95105654>>, <<-80901700, -58778518>>,
  <<100000000, 0>>, <<-10452851, -99452192>>, <<-97814757, 20791179>>,
  <<100000000, 0>>, <<97814763, -20791170>>, <<91354543, -40673664>>,
  <<80901700, -58778524>>, <<66913056, -74314487>>, <<49999997, -86602545>>,
  <<30901697, -95105654>>, <<10452842, -99452192>>, <<-10452851, -99452192>>,
  <<-30901703, -95105648>>, <<-50000006, -86602533>>, <<-66913068, -74314475>>,
  <<-80901700, -58778518>>, <<-91354549, -40673658>>, <<-97814763, -20791161>>,
  <<100000000, 0>>, <<99862951, -5233596>>, <<99452192, -10452846>>,
  <<98768836, -15643448>>, <<97814763, -20791170>>, <<96592581, -25881904>>,
  <<95105648, -30901700>>, <<93358040, -35836795>>, <<91354543, -40673664>>,
  <<89100653, -45399052>>, <<86602545, -50000000>>, <<83867055, -54463905>>,
  <<80901700, -58778524>>, <<77714598, -62932038>>, <<74314475, -66913062>>,
  <<70710677, -70710683>>, <<66913056, -74314487>>, <<62932038, -77714598>>,
  <<58778524, -80901700>>, <<54463899, -83867055>>, <<49999997, -86602545>>,
  <<45399052, -89100653>>, <<40673661, -91354549>>, <<35836786, -93358046>>,
  <<30901697, -95105654>>, <<25881907, -96592581>>, <<20791166, -97814763>>,
  <<15643437, -98768836>>, <<10452842, -99452192>>, <<5233597, -99862951>>,
  <<100000000, 0>>, <<99452192, -10452846>>, <<97814763, -20791170>>,
  <<95105648, -30901700>>, <<91354543, -40673664>>, <<86602545, -50000000>>,
  <<80901700, -58778524>>, <<74314475, -66913062>>, <<66913056, -74314487>>,
  <<58778524, -80901700>>, <<49999997, -86602545>>, <<40673661, -91354549>>,
  <<30901697, -95105654>>, <<20791166, -97814763>>, <<10452842, -99452192>>,
  <<-4, -100000000>>, <<-10452851, -99452192>>, <<-20791174, -97814757>>,
  <<-30901703, -95105648>>, <<-40673670, -91354543>>, <<-50000006, -86602533>>,
  <<-58778518, -80901700>>, <<-66913068, -74314475>>, <<-74314493, -66913044>>,
  <<-80901700, -58778518>>, <<-86602539, -50000006>>, <<-91354549, -40673658>>,
  <<-95105654, -30901679>>, <<-97814763, -20791161>>, <<-99452192, -10452849>>,
  <<100000000, 0>>, <<98768836, -15643448>>, <<95105648, -30901700>>,
  <<89100653, -45399052>>, <<80901700, -58778524>>, <<70710677, -70710683>>,
  <<58778524, -80901700>>, <<45399052, -89100653>>, <<30901697, -95105654>>,
  <<15643437, -98768836>>, <<-4, -100000000>>, <<-15643445, -98768836>>,
  <<-30901703, -95105648>>, <<-45399061, -89100647>>, <<-58778518, -80901700>>,
  <<-70710677, -70710677>>, <<-80901700, -58778518>>, <<-89100659, -45399037>>,
  <<-95105654, -30901679>>, <<-98768836, -15643445>>, <<-100000000, 9>>,
  <<-98768830, 15643461>>, <<-95105654, 30901697>>, <<-89100653, 45399055>>,
  <<-80901694, 58778536>>, <<-70710665, 70710689>>, <<-58778507, 80901712>>,
  <<-45399022, 89100665>>, <<-30901709, 95105648>>, <<-15643452, 98768830>>
>>

(* ne10_twiddles_60 with entry 0 emitted as the float just below 1. *)
ne10_twiddles_60_dc_rounded == <<
  <<99999994, 0>>, <<100000000, 0>>, <<100000000, 0>>,
  <<100000000, 0>>, <<91354543, -40673664>>, <<66913056, -74314487>>,
  <<100000000, 0>>, <<66913056, -74314487>>, <<-10452851, -99452192>>,
  <<100000000, 0>>, <<30901697, -95105654>>, <<-80901700, -58778518>>,
  <<100000000, 0>>, <<-10452851, -99452192>>, <<-97814757, 20791179>>,
  <<100000000, 0>>, <<99452192, -10452846>>, <<97814763, -20791170>>,
  <<95105648, -30901700>>, <<91354543, -40673664>>, <<86602545, -50000000>>,
  <<80901700, -58778524>>, <<74314475, -66913062>>, <<66913056, -74314487>>,
  <<58778524, -80901700>>, <<49999997, -86602545>>, <<40673661, -91354549>>,
  <<30901697, -95105654>>, <<20791166, -97814763>>, <<10452842, -99452192>>,
  <<100000000, 0>>, <<97814763, -20791170>>, <<91354543, -40673664>>,
  <<80901700, -58778524>>, <<66913056, -74314487>>, <<49999997, -86602545>>,
  <<30901697, -95105654>>, <<10452842, -99452192>>, <<-10452851, -99452192>>,
  <<-30901703, -95105648>>, <<-50000006, -86602533>>, <<-66913068, -74314475>>,
  <<-80901700, -58778518>>, <<-91354549, -40673658>>, <<-97814763, -20791161>>,
  <<100000000, 0>>, <<95105648, -30901700>>, <<80901700, -58778524>>,
  <<58778524, -80901700>>, <<30901697, -95105654>>, <<-4, -100000000>>,
  <<-30901703, -95105648>>, <<-58778518, -80901700>>, <<-80901700, -58778518>>,
  <<-95105654, -30901679>>, <<-100000000, 9>>, <<-95105654, 30901697>>,
  <<-80901694, 58778536>>, <<-58778507, 80901712>>, <<-30901709, 95105648>>
>>

(* ne10_twiddles_60 with one wrong digit in the real part of entry 16. *)
ne10_twiddles_60_bad_digit == <<
  <<100000000, 0>>, <<100000000, 0>>, <<100000000, 0>>,
  <<100000000, 0>>, <<91354543, -40673664>>, <<66913056, -74314487>>,
  <<100000000, 0>>, <<66913056, -74314487>>, <<-10452851, -99452192>>,
  <<100000000, 0>>, <<30901697, -95105654>>, <<-80901700, -58778518>>,
  <<100000000, 0>>, <<-10452851, -99452192>>, <<-97814757, 20791179>>,
  <<100000000, 0>>, <<99462192, -10452846>>, <<97814763, -20791170>>,
  <<95105648, -30901700>>, <<91354543, -40673664>>, <<86602545, -50000000>>,
  <<80901700, -58778524>>, <<74314475, -66913062>>, <<66913056, -74314487>>,
  <<58778524, -80901700>>, <<49999997, -86602545>>, <<40673661, -91354549>>,
  <<30901697, -95105654>>, <<20791166, -97814763>>, <<10452842, -99452192>>,
  <<100000000, 0>>, <<97814763, -20791170>>, <<91354543, -40673664>>,
  <<80901700, -58778524>>, <<66913056, -74314487>>, <<49999997, -86602545>>,
  <<30901697, -95105654>>, <<10452842, -99452192>>, <<-10452851, -99452192>>,
  <<-30901703, -95105648>>, <<-50000006, -86602533>>, <<-66913068, -74314475>>,
  <<-80901700, -58778518>>, <<-91354549, -40673658>>, <<-97814763, -20791161>>,
  <<100000000, 0>>, <<95105648, -30901700>>, <<80901700, -58778524>>,
  <<58778524, -80901700>>, <<30901697, -95105654>>, <<-4, -100000000>>,
  <<-30901703, -95105648>>, <<-58778518, -80901700>>, <<-80901700, -58778518>>,
  <<-95105654, -30901679>>, <<-100000000, 9>>, <<-95105654, 30901697>>,
  <<-80901694, 58778536>>, <<-58778507, 80901712>>, <<-30901709, 95105648>>
>>

ne10_twiddles_60 == <<
  <<100000000, 0>>, <<100000000, 0>>, <<100000000, 0>>,
  <<100000000, 0>>, <<91354543, -40673664>>, <<66913056, -74314487>>,
  <<100000000, 0>>, <<66913056, -74314487>>, <<-10452851, -99452192>>,
  <<100000000, 0>>, <<30901697, -95105654>>, <<-80901700, -58778518>>,
  <<100000000, 0>>, <<-10452851, -99452192>>, <<-97814757, 20791179>>,
  <<100000000, 0>>, <<99452192, -10452846>>, <<97814763, -20791170>>,
  <<95105648, -30901700>>, <<91354543, -40673664>>, <<86602545, -50000000>>,
  <<80901700, -58778524>>, <<74314475, -66913062>>, <<66913056, -74314487>>,
  <<58778524, -80901700>>, <<49999997, -86602545>>, <<40673661, -91354549>>,
  <<30901697, -95105654>>, <<20791166, -97814763>>, <<10452842, -99452192>>,
  <<100000000, 0>>, <<97814763, -20791170>>, <<91354543, -40673664>>,
  <<80901700, -58778524>>, <<66913056, -74314487>>, <<49999997, -86602545>>,
  <<30901697, -95105654>>, <<10452842, -99452192>>, <<-10452851, -99452192>>,
  <<-30901703, -95105648>>, <<-50000006, -86602533>>, <<-66913068, -74314475>>,
  <<-80901700, -58778518>>, <<-91354549, -40673658>>, <<-97814763, -20791161>>,
  <<100000000, 0>>, <<95105648, -30901700>>, <<80901700, -58778524>>,
  <<58778524, -80901700>>, <<30901697, -95105654>>, <<-4, -100000000>>,
  <<-30901703, -95105648>>, <<-58778518, -80901700>>, <<-80901700, -58778518>>,
  <<-95105654, -30901679>>, <<-100000000, 9>>, <<-95105654, 30901697>>,
  <<-80901694, 58778536>>, <<-58778507, 80901712>>, <<-30901709, 95105648>>
>>

(* A pointer into a table: the table and an element offset. *)
Ptr(tab, off) == [tab |-> tab, off |-> off]

(* ---- ne10_fft_state_float32_t: positional initialisers ----             *)
(* nfft, factors, twiddles, buffer, second twiddle pointer,                *)
(* is_forward_scaled, is_backward_scaled                                   *)
(* ne10_fft_state_float32_t_480 wired to the factors of the 240 transform. *)
ne10_fft_state_float32_t_480_factors_240 ==
  [nfft |-> 120,
   factors |-> Ptr(ne10_factors_240, 0),
   twiddles |-> Ptr(ne10_twiddles_480, 0),
   buffer |-> NULL,
   last_twiddles |-> Ptr(ne10_twiddles_480, 120),
   is_forward_scaled |-> 1,
   is_backward_scaled |-> 0]

ne10_fft_state_float32_t_480 ==
  [nfft |-> 120,
   factors |-> Ptr(ne10_factors_480, 0),
   twiddles |-> Ptr(ne10_twiddles_480, 0),
   buffer |-> NULL,
   last_twiddles |-> Ptr(ne10_twiddles_480, 120),
   is_forward_scaled |-> 1,
   is_backward_scaled |-> 0]

(* ne10_fft_state_float32_t_240 wired to the twiddles of the 120 transform. *)
ne10_fft_state_float32_t_240_twiddles_120 ==
  [nfft |-> 60,
   factors |-> Ptr(ne10_factors_240, 0),
   twiddles |-> Ptr(ne10_twiddles_120, 0),
   buffer |-> NULL,
   last_twiddles |-> Ptr(ne10_twiddles_120, 60),
   is_forward_scaled |-> 1,
   is_backward_scaled |-> 0]

(* ne10_fft_state_float32_t_240 with the two scaling flags exchanged. *)
ne10_fft_state_float32_t_240_flags_swapped ==
  [nfft |-> 60,
   factors |-> Ptr(ne10_factors_240, 0),
   twiddles |-> Ptr(ne10_twiddles_240, 0),
   buffer |-> NULL,
   last_twiddles |-> Ptr(ne10_twiddles_240, 60),
   is_forward_scaled |-> 0,
   is_backward_scaled |-> 1]

ne10_fft_state_float32_t_240 ==
  [nfft |-> 60,
   factors |-> Ptr(ne10_factors_240, 0),
   twiddles |-> Ptr(ne10_twiddles_240, 0),
   buffer |-> NULL,
   last_twiddles |-> Ptr(ne10_twiddles_240, 60),
   is_forward_scaled |-> 1,
   is_backward_scaled |-> 0]

(* ne10_fft_state_float32_t_120 with the second twiddle pointer left at   *)
(* the start of the table.                                                 *)
ne10_fft_state_float32_t_120_last_at_start ==
  [nfft |-> 30,
   factors |-> Ptr(ne10_factors_120, 0),
   twiddles |-> Ptr(ne10_twiddles_120, 0),
   buffer |-> NULL,
   last_twiddles |-> Ptr(ne10_twiddles_120, 0),
   is_forward_scaled |-> 1,
   is_backward_scaled |-> 0]

ne10_fft_state_float32_t_120 ==
  [nfft |-> 30,
   factors |-> Ptr(ne10_factors_120, 0),
   twiddles |-> Ptr(ne10_twiddles_120, 0),
   buffer |-> NULL,
   last_twiddles |-> Ptr(ne10_twiddles_120, 30),
   is_forward_scaled |-> 1,
   is_backward_scaled |-> 0]

(* ne10_fft_state_float32_t_60 with nfft set to the full length 60. *)
ne10_fft_state_float32_t_60_full_nfft ==
  [nfft |-> 60,
   factors |-> Ptr(ne10_factors_60, 0),
   twiddles |-> Ptr(ne10_twiddles_60, 0),
   buffer |-> NULL,
   last_twiddles |-> Ptr(ne10_twiddles_60, 15),
   is_forward_scaled |-> 1,
   is_backward_scaled |-> 0]

(* ne10_fft_state_float32_t_60 wired to the twiddles of the 120 transform. *)
ne10_fft_state_float32_t_60_twiddles_120 ==
  [nfft |-> 15,
   factors |-> Ptr(ne10_factors_60, 0),
   twiddles |-> Ptr(ne10_twiddles_120, 0),
   buffer |-> NULL,
   last_twiddles |-> Ptr(ne10_twiddles_120, 15),
   is_forward_scaled |-> 1,
   is_backward_scaled |-> 0]

ne10_fft_state_float32_t_60 ==
  [nfft |-> 15,
   factors |-> Ptr(ne10_factors_60, 0),
   twiddles |-> Ptr(ne10_twiddles_60, 0),
   buffer |-> NULL,
   last_twiddles |-> Ptr(ne10_twiddles_60, 15),
   is_forward_scaled |-> 1,
   is_backward_scaled |-> 0]

(* ---- arch_fft_state: { is_supported, priv } ---- *)
cfg_arch_480 == [is_supported |-> 1, priv |-> ne10_fft_state_float32_t_480]

cfg_arch_240 == [is_supported |-> 1, priv |-> ne10_fft_state_float32_t_240]

cfg_arch_120 == [is_supported |-> 1, priv |-> ne10_fft_state_float32_t_120]

cfg_arch_60 == [is_supported |-> 1, priv |-> ne10_fft_state_float32_t_60]

(* The transform lengths for which the header defines a descriptor. *)
Lengths == {60, 120, 240, 480}

(* cfg_arch_<n> *)
cfg_arch(n) ==
  CASE n = 480 -> cfg_arch_480
    [] n = 240 -> cfg_arch_240
    [] n = 120 -> cfg_arch_120
    [] n = 60 -> cfg_arch_60

(* The ne10_fft_state_float32_t that cfg_arch_<n>.priv points to. *)
State(n) == cfg_arch(n).priv

(* p[k] in C: element k past the pointer (sequences are 1-based). *)
Deref(p, k) == p.tab[p.off + k + 1]

(* Number of elements of the array p points into that lie at or after p. *)
Extent(p) == Len(p.tab) - p.off

VARIABLES
  cfg,    \* transform length of the descriptor in use (cfg_arch_<cfg>)
  fi,     \* index of the next entry of the factors array to read
  fseen,  \* entries of the factors array read so far, in order
  tk,     \* index of the next entry of the twiddle table to read
  tw,     \* the twiddle entry read last (<<r, i>>), <<>> before any read
  flags   \* <<is_forward_scaled, is_backward_scaled>> as read, <<>> before

vars == <<cfg, fi, fseen, tk, tw, flags>>

Init ==
  /\ cfg \in Lengths
  /\ fi = 0
  /\ fseen = <<>>
  /\ tk = 0
  /\ tw = <<>>
  /\ flags = <<>>

(* Switch to the descriptor of another length; reading starts over. *)
SelectMode(n) ==
  /\ n # cfg
  /\ cfg' = n
  /\ fi' = 0
  /\ fseen' = <<>>
  /\ tk' = 0
  /\ tw' = <<>>
  /\ flags' = <<>>

(* st->factors[fi++] *)
ReadFactor ==
  /\ fi < Extent(State(cfg).factors)
  /\ fseen' = Append(fseen, Deref(State(cfg).factors, fi))
  /\ fi' = fi + 1
  /\ UNCHANGED <<cfg, tk, tw, flags>>

(* st->twiddles[tk++] *)
ReadTwiddle ==
  /\ tk < Extent(State(cfg).twiddles)
  /\ tw' = Deref(State(cfg).twiddles, tk)
  /\ tk' = tk + 1
  /\ UNCHANGED <<cfg, fi, fseen, flags>>

(* st->is_forward_scaled, st->is_backward_scaled *)
ReadScaling ==
  /\ flags = <<>>
  /\ flags' = <<State(cfg).is_forward_scaled, State(cfg).is_backward_scaled>>
  /\ UNCHANGED <<cfg, fi, fseen, tk, tw>>

Next ==
  \/ \E n \in Lengths : SelectMode(n)
  \/ ReadFactor
  \/ ReadTwiddle
  \/ ReadScaling

Spec == Init /\ [][Next]_vars

TypeOK ==
  /\ cfg \in Lengths
  /\ fi \in 0..64
  /\ Len(fseen) = fi
  /\ tk \in 0..cfg
  /\ (tk = 0) = (tw = <<>>)
  /\ flags \in {<<>>} \cup ({0, 1} \X {0, 1})

(***************************************************************************)
(* Arithmetic used by the properties.                                      *)
(***************************************************************************)
Abs(x) == IF x < 0 THEN -x ELSE x

RECURSIVE Product(_)
Product(s) == IF s = <<>> THEN 1 ELSE Head(s) * Product(Tail(s))

(* The entries of s that are not the sentinel 0. *)
NonZero(s) == SelectSeq(s, LAMBDA x : x # 0)

(* f[0] is the stage count S; f[2i], i = 1..S, are the stage radices. *)
Radices(f) == [i \in 1..f[1] |-> f[2 * i + 1]]

(* a and b agree within tol in both components. *)
Near(a, b, tol) == Abs(a[1] - b[1]) <= tol /\ Abs(a[2] - b[2]) <= tol

(* 1e-5 in units of 1/Scale. *)
Tol5 == Scale \div 10^5

(* r^2 + i^2 of t is NormA*Scale + NormB*Limb + NormC in units of          *)
(* 1/Scale^2, computed on the two base-Limb digits of |r| and |i| so that   *)
(* no intermediate value leaves the 32-bit range.                          *)
Hi(x) == Abs(x) \div Limb

Lo(x) == Abs(x) % Limb

NormA(t) == Hi(t[1]) * Hi(t[1]) + Hi(t[2]) * Hi(t[2])

NormB(t) == 2 * (Hi(t[1]) * Lo(t[1]) + Hi(t[2]) * Lo(t[2]))

NormC(t) == Lo(t[1]) * Lo(t[1]) + Lo(t[2]) * Lo(t[2])

(* floor((r^2 + i^2 - 1) * 10^12), defined when NormA is within 10^5 of    *)
(* Scale.                                                                  *)
NormDev(t) == (NormA(t) - Scale) * Limb + NormB(t) + (NormC(t) \div Limb)

(* | |t| - 1 | <= 1e-6, i.e. (1 - 1e-6)^2 <= r^2 + i^2 <= (1 + 1e-6)^2,    *)
(* i.e. -(2*10^6 - 1) <= (r^2 + i^2 - 1) * 10^12 <= 2*10^6 + 1.            *)
UnitMagnitude(t) ==
  /\ Abs(NormA(t) - Scale) <= 10^5
  /\ NormDev(t) >= -(2 * 10^6 - 1)
  /\ \/ NormDev(t) < 2 * 10^6 + 1
     \/ NormDev(t) = 2 * 10^6 + 1 /\ NormC(t) % Limb = 0

(* The whole factors array of the descriptor in use has been read. *)
FactorsRead == fi = Extent(State(cfg).factors)

(***************************************************************************)
(* C1 (as stated): for each descriptor, the product of the entries of its  *)
(* factors array, leaving out the zero entries, equals the transform       *)
(* length.                                                                 *)
(***************************************************************************)
C1_ProductOfEntriesIsLength ==
  FactorsRead => Product(NonZero(fseen)) = cfg

(***************************************************************************)
(* C1 (amended): for each descriptor, the product of the stage radices of  *)
(* its factors array (entries 2, 4, .., 2S, where S is entry 0) equals the *)
(* descriptor's nfft field, and nfft is one quarter of the transform       *)
(* length.                                                                 *)
(***************************************************************************)
C1_ProductOfRadicesIsNfft ==
  FactorsRead =>
    /\ Product(Radices(fseen)) = State(cfg).nfft
    /\ 4 * State(cfg).nfft = cfg

C1_Witness ==
  /\ cfg = 480
  /\ FactorsRead
  /\ Radices(fseen) = <<4, 2, 5, 3>>
  /\ Product(NonZero(fseen)) = 25920000

(***************************************************************************)
(* C2 (as stated): for length 60 the factors array begins                  *)
(* 2, 5, 5, 3, 3, 1, 1 and entry 1 of the twiddle table is                 *)
(* (0.99452192, -0.10452846) within 1e-5 per component.                    *)
(***************************************************************************)
C2_Entry1IsFirstRoot ==
  cfg = 60 =>
    /\ fi >= 7 => SubSeq(fseen, 1, 7) = <<2, 5, 5, 3, 3, 1, 1>>
    /\ tk = 2 => Near(tw, <<99452192, -10452846>>, Tol5)

(***************************************************************************)
(* C2 (amended): for length 60 the factors array begins                    *)
(* 2, 5, 5, 3, 3, 1, 1 and entry 16 of the twiddle table is                *)
(* (0.99452192, -0.10452846) within 1e-5 per component.                    *)
(***************************************************************************)
C2_Entry16IsFirstRoot ==
  cfg = 60 =>
    /\ fi >= 7 => SubSeq(fseen, 1, 7) = <<2, 5, 5, 3, 3, 1, 1>>
    /\ tk = 17 => Near(tw, <<99452192, -10452846>>, Tol5)

C2_Witness ==
  /\ cfg = 60
  /\ fi = 7
  /\ fseen = <<2, 5, 5, 3, 3, 1, 1>>
  /\ tk = 17
  /\ tw = <<99452192, -10452846>>

(***************************************************************************)
(* C3: for length 480 the factors array begins                             *)
(* 4, 40, 4, 30, 2, 15, 5, 3, 3, 1, 1 and entry 4 of the twiddle table is  *)
(* (0.91354543, -0.40673664) within 1e-5 per component.                    *)
(***************************************************************************)
C3_KnownValues480 ==
  cfg = 480 =>
    /\ fi >= 11 =>
         SubSeq(fseen, 1, 11) = <<4, 40, 4, 30, 2, 15, 5, 3, 3, 1, 1>>
    /\ tk = 5 => Near(tw, <<91354543, -40673664>>, Tol5)

C3_Witness ==
  /\ cfg = 480
  /\ fi = 11
  /\ fseen = <<4, 40, 4, 30, 2, 15, 5, 3, 3, 1, 1>>
  /\ tk = 5
  /\ tw = <<91354543, -40673664>>

(***************************************************************************)
(* C4: in every descriptor, entry 0 of the twiddle table is exactly        *)
(* (1.0, 0.0).                                                             *)
(***************************************************************************)
C4_EntryZeroIsOne ==
  tk = 1 => tw = <<Scale, 0>>

C4_Witness ==
  /\ cfg = 60
  /\ tk = 1
  /\ tw = Deref(State(60).twiddles, 0)
  /\ tw = <<Scale, 0>>

(***************************************************************************)
(* C5: in every descriptor, every entry k in [0, length) of the twiddle    *)
(* table has magnitude 1 within 1e-6.                                      *)
(***************************************************************************)
C5_UnitMagnitude ==
  tk > 0 => UnitMagnitude(tw)

C5_Witness ==
  /\ cfg = 480
  /\ tk = 480
  /\ tw = <<-3925982, 99922901>>
  /\ NormDev(tw) # 0
  /\ UnitMagnitude(tw)

(* The whole twiddle table of the descriptor in use has been read. *)
TwiddlesRead == tk = Extent(State(cfg).twiddles)

(***************************************************************************)
(* C11 (as stated): for every descriptor, the number of entries of its     *)
(* twiddle table equals the transform length recorded in the descriptor's  *)
(* length field (its first field).                                         *)
(***************************************************************************)
C11_TableSizeIsLengthField ==
  TwiddlesRead => tk = State(cfg).nfft

(***************************************************************************)
(* C11 (amended): for every descriptor, the number of entries of its       *)
(* twiddle table equals the transform length the descriptor is defined     *)
(* for, which is four times the value recorded in its first field (nfft).  *)
(***************************************************************************)
C11_TableSizeIsFourNfft ==
  TwiddlesRead => tk = cfg /\ tk = 4 * State(cfg).nfft

C11_Witness ==
  /\ cfg = 240
  /\ TwiddlesRead
  /\ tk = 240
  /\ State(cfg).nfft = 60

(***************************************************************************)
(* C12: every descriptor has is_forward_scaled true and                    *)
(* is_backward_scaled false.                                               *)
(***************************************************************************)
C12_ForwardScaledOnly ==
  flags # <<>> => flags = <<1, 0>>

C12_Witness ==
  /\ cfg = 240
  /\ flags = <<1, 0>>

(* The factors p extracted from n while p divides it, and what is left. *)
RECURSIVE Extracted(_, _)
Extracted(n, p) == IF n % p = 0 THEN <<p>> \o Extracted(n \div p, p) ELSE <<>>

RECURSIVE Left(_, _)
Left(n, p) == IF n % p = 0 THEN Left(n \div p, p) ELSE n

(* The greedy rule on n >= 1: 4 while divisible, then 2 once if still      *)
(* even, then p repeatedly, then q repeatedly, in extraction order.        *)
GreedyRule(n, p, q) ==
  LET n4 == Left(n, 4)
      n2 == IF n4 % 2 = 0 THEN n4 \div 2 ELSE n4
  IN  Extracted(n, 4)
        \o (IF n4 % 2 = 0 THEN <<2>> ELSE <<>>)
        \o Extracted(n2, p)
        \o Extracted(Left(n2, p), q)

(***************************************************************************)
(* C13 (as stated): for each length, the descriptor's factors sequence     *)
(* (its non-zero entries, or at least its stage radices) is the one the    *)
(* greedy rule 4, 2, 3, 5 produces for that length.                        *)
(***************************************************************************)
C13_GreedyOnLength ==
  FactorsRead =>
    \/ NonZero(fseen) = GreedyRule(cfg, 3, 5)
    \/ Radices(fseen) = GreedyRule(cfg, 3, 5)

(***************************************************************************)
(* C13 (amended): for each length, the stage radices of the descriptor's   *)
(* factors array are, in order, what the greedy rule produces for a        *)
(* quarter of that length (nfft) when 5 is extracted before 3: 4 while     *)
(* divisible, then 2 once if still even, then 5 repeatedly, then 3         *)
(* repeatedly.                                                             *)
(***************************************************************************)
C13_GreedyOnNfftFiveFirst ==
  FactorsRead => Radices(fseen) = GreedyRule(State(cfg).nfft, 5, 3)

C13_Witness ==
  /\ cfg = 480
  /\ FactorsRead
  /\ GreedyRule(State(cfg).nfft, 5, 3) = <<4, 2, 5, 3>>
  /\ GreedyRule(cfg, 3, 5) = <<4, 4, 2, 3, 5>>
  /\ Radices(fseen) = <<4, 2, 5, 3>>

(* Complex arithmetic on the fixed-point pairs.  MulFix(a, b) is a*b/Scale  *)
(* for |a|, |b| <= Scale, truncated, computed on base-Limb digits.         *)
Sgn(x) == IF x < 0 THEN -1 ELSE 1

MulFix(a, b) ==
  Sgn(a) * Sgn(b) *
    (Hi(a) * Hi(b)
       + ((Hi(a) * Lo(b) + Lo(a) * Hi(b)) \div Limb)
       + ((Lo(a) * Lo(b)) \div Scale))

CMul(x, y) ==
  <<MulFix(x[1], y[1]) - MulFix(x[2], y[2]),
    MulFix(x[1], y[2]) + MulFix(x[2], y[1])>>

Conj(t) == <<t[1], -t[2]>>

(* Entry i seen through the second twiddle pointer of the descriptor. *)
Last(i) == Deref(State(cfg).last_twiddles, i)

(***************************************************************************)
(* C14 (as stated): in every descriptor the twiddle table is conjugate     *)
(* symmetric: for every k in 1..N-1, entry N-k equals the conjugate of     *)
(* entry k within 1e-5 per component, N being the table length.            *)
(***************************************************************************)
C14_ConjugateSymmetry ==
  tk >= 2 =>
    Near(Deref(State(cfg).twiddles, Extent(State(cfg).twiddles) - (tk - 1)),
         Conj(tw), Tol5)

(***************************************************************************)
(* C14 (amended): in every descriptor the second twiddle pointer does not  *)
(* rest on conjugate symmetry; it addresses entries nfft..N-1 of the same  *)
(* table, three blocks of nfft entries in which entry k of block m         *)
(* (m = 1, 2, 3) is the (m*k)-th power of w, entry 1 of block 1, within    *)
(* 1e-5 per component and step: block 1 starts at (1, 0), each of its      *)
(* entries is the previous one times w, w to the nfft is -i, and entry k   *)
(* of block m > 1 is entry k of block 1 times entry k of block m-1.        *)
(***************************************************************************)
C14_LastStagePowers ==
  LET st == State(cfg)
      n == st.nfft
      j == tk - 1 - st.last_twiddles.off
      m == (j \div n) + 1
      k == j % n
  IN  (tk >= 1 /\ j >= 0) =>
        /\ m \in 1..3
        /\ tw = Last(j)
        /\ (m = 1 /\ k = 0) => Near(tw, <<Scale, 0>>, Tol5)
        /\ (m = 1 /\ k >= 1) => Near(tw, CMul(Last(k - 1), Last(1)), Tol5)
        /\ (m = 1 /\ k = n - 1) => Near(CMul(tw, Last(1)), <<0, -Scale>>, Tol5)
        /\ m >= 2 => Near(tw, CMul(Last(k), Last((m - 2) * n + k)), Tol5)

C14_Witness ==
  /\ cfg = 120
  /\ tk = 120
  /\ tw = Last(89)
  /\ tw = <<-15643452, 98768830>>
  /\ Near(tw, CMul(Last(29), Last(59)), Tol5)
  /\ ~Near(Deref(State(cfg).twiddles, 1), Conj(tw), Tol5)

(* Stage i of the factors array f: radix f[2i] and remaining size f[2i+1]. *)
Radix(f, i) == f[2 * i + 1]

Remaining(f, i) == f[2 * i + 2]

(***************************************************************************)
(* C15: in each factors array entry 0 is the stage count S and, for        *)
(* i = 1..S, entries (2i, 2i+1) are a (radix, remaining size) pair with    *)
(* radix in {2, 3, 4, 5}, each remaining size being the previous one       *)
(* divided by the radix, from the descriptor's nfft down to 1; so the      *)
(* radices multiply to nfft, a quarter of the length, and the second       *)
(* twiddle pointer's offset nfft plus 3*nfft is the twiddle table size.    *)
(***************************************************************************)
C15_StagePairsChain ==
  FactorsRead =>
    LET st == State(cfg)
        S == fseen[1]
    IN  /\ S >= 1
        /\ 2 * S + 2 <= Len(fseen)
        /\ \A i \in 1..S :
             /\ Radix(fseen, i) \in {2, 3, 4, 5}
             /\ Radix(fseen, i) * Remaining(fseen, i)
                  = (IF i = 1 THEN st.nfft ELSE Remaining(fseen, i - 1))
        /\ Remaining(fseen, S) = 1
        /\ Product(Radices(fseen)) = st.nfft
        /\ 4 * st.nfft = cfg
        /\ st.last_twiddles.off = st.nfft
        /\ st.last_twiddles.tab = st.twiddles.tab
        /\ st.last_twiddles.off + 3 * st.nfft = Len(st.twiddles.tab)

C15_Witness ==
  /\ cfg = 120
  /\ FactorsRead
  /\ fseen[1] = 3
  /\ SubSeq(fseen, 3, 8) = <<2, 15, 5, 3, 3, 1>>
  /\ State(cfg).last_twiddles.off = 30
  /\ Extent(State(cfg).last_twiddles) = 90

====
